---------------------------- MODULE Spec2Model ----------------------------
(***************************************************************************)
(* A model of meshio's FLAC3D codec (src/meshio/flac3d/_flac3d.py).        *)
(*                                                                         *)
(* Python sequences are 0-based and TLA+ sequences 1-based: a vertex       *)
(* index, a column index and a cell index keep their 0-based Python value, *)
(* and an access s[i] of the code is written s[i + 1] here.                *)
(*                                                                         *)
(* A binary file is modelled as the sequence of fields the code writes and *)
(* reads (a field is one struct.pack / tofile / fromfile item), a text     *)
(* file as the sequence of its lines, each line the sequence of its        *)
(* whitespace-separated tokens (what line.rstrip().split() returns).       *)
(*                                                                         *)
(* The width in bytes of a binary field is not modelled.  write packs the  *)
(* counts and ids with struct's "I" (4 bytes) and read takes them with     *)
(* numpy's default integer, so a binary file is read back field for field  *)
(* only by a build whose default integer is 4 bytes wide.  Nothing proved  *)
(* here rests on that: what is proved of a binary file is proved of read   *)
(* alone or of write alone, and of write followed by read only in text.    *)
(***************************************************************************)
EXTENDS Integers, Sequences, FiniteSets, TLC

VARIABLES
    mesh,       \* the mesh handed to write / _translate_zones
    zones,      \* the list _translate_zones returns
    pc,         \* position of the driver
    rd,         \* read_buffer's file, stream position and locals
    given,      \* the records the file under read was made of (history)
    binary,     \* write's binary argument
    wr          \* what write did: its outcome and the file, section by section

vars == <<mesh, zones, pc, rd, given, binary, wr>>

\* The value of a variable a specification does not use.
Unused == "unused"

---------------------------------------------------------------------------
(* Helpers on sequences.                                                   *)

Range(s) == {s[i] : i \in DOMAIN s}

RECURSIVE SumSeq(_)
SumSeq(s) == IF s = <<>> THEN 0 ELSE Head(s) + SumSeq(Tail(s))

RECURSIVE Flatten(_)
Flatten(ss) == IF ss = <<>> THEN <<>> ELSE Head(ss) \o Flatten(Tail(ss))

\* numpy fancy indexing of one row: row[perm], perm a list of 0-based columns
Take(row, perm) == [j \in 1..Len(perm) |-> row[perm[j] + 1]]

---------------------------------------------------------------------------
(* Type tables.                                                            *)

meshio_only ==
    [ tetra        |-> "tetra",
      tetra10      |-> "tetra",
      pyramid      |-> "pyramid",
      pyramid13    |-> "pyramid",
      wedge        |-> "wedge",
      wedge12      |-> "wedge",
      wedge15      |-> "wedge",
      wedge18      |-> "wedge",
      hexahedron   |-> "hexahedron",
      hexahedron20 |-> "hexahedron",
      hexahedron24 |-> "hexahedron",
      hexahedron27 |-> "hexahedron" ]

numnodes_to_meshio_type ==
    (4 :> "tetra") @@ (5 :> "pyramid") @@ (6 :> "wedge") @@ (8 :> "hexahedron")

meshio_type_to_numnodes ==
    [ tetra |-> 4, pyramid |-> 5, wedge |-> 6, hexahedron |-> 8 ]

meshio_to_flac3d_type ==
    [ tetra |-> "T4", pyramid |-> "P5", wedge |-> "W6", hexahedron |-> "B8" ]

flac3d_to_meshio_order ==
    [ tetra      |-> <<0, 1, 2, 3>>,
      pyramid    |-> <<0, 1, 4, 2, 3>>,
      wedge      |-> <<0, 1, 3, 2, 4, 5>>,
      hexahedron |-> <<0, 1, 4, 2, 3, 6, 7, 5>> ]

meshio_to_flac3d_order ==
    [ tetra      |-> <<0, 1, 2, 3>>,
      pyramid    |-> <<0, 1, 3, 4, 2>>,
      wedge      |-> <<0, 1, 3, 2, 4, 5>>,
      hexahedron |-> <<0, 1, 3, 4, 2, 7, 5, 6>> ]

meshio_to_flac3d_order_2 ==
    [ tetra      |-> <<0, 2, 1, 3>>,
      pyramid    |-> <<0, 3, 1, 4, 2>>,
      wedge      |-> <<0, 2, 3, 1, 5, 4>>,
      hexahedron |-> <<0, 3, 1, 4, 2, 5, 7, 6>> ]

\* The number of nodes of a cell of each type write accepts: the rows of a
\* block of that type have this many columns.
NumNodes ==
    [ tetra        |-> 4,  tetra10      |-> 10,
      pyramid      |-> 5,  pyramid13    |-> 13,
      wedge        |-> 6,  wedge12      |-> 12,
      wedge15      |-> 15, wedge18      |-> 18,
      hexahedron   |-> 8,  hexahedron20 |-> 20,
      hexahedron24 |-> 24, hexahedron27 |-> 27 ]

---------------------------------------------------------------------------
(* _translate_zones: the orientation corrector.                            *)

Sub(p, q) == <<p[1] - q[1], p[2] - q[2], p[3] - q[3]>>

\* a . (b x c), one row of slicing_summing
slicing_summing(a, b, c) ==
    LET c0 == b[2] * c[3] - b[3] * c[2]
        c1 == b[3] * c[1] - b[1] * c[3]
        c2 == b[1] * c[2] - b[2] * c[1]
    IN  a[1] * c0 + a[2] * c1 + a[3] * c2

\* tmp = points[four vertices]; det = slicing_summing(tmp[1]-tmp[0], ...)
Det(points, four) ==
    LET tmp == [j \in 1..4 |-> points[four[j] + 1]]
    IN  slicing_summing(Sub(tmp[2], tmp[1]), Sub(tmp[3], tmp[1]), Sub(tmp[4], tmp[1]))

\* A plausible slip: the orientation test dropped, the primary order always used.
ReorderNoTest(points, key, row) == Take(row, meshio_to_flac3d_order[key])

\* numpy.where((det > 0)[:, None], idx[:, order[key]], idx[:, order_2[key]]),
\* for one row idx of a block of (first-order) type key
Reorder(points, key, row) ==
    LET det == Det(points, Take(row, SubSeq(meshio_to_flac3d_order[key], 1, 4)))
    IN  IF det > 0 THEN Take(row, meshio_to_flac3d_order[key])
                   ELSE Take(row, meshio_to_flac3d_order_2[key])

\* cells: a sequence of blocks [type, data], data the sequence of rows
RECURSIVE translate_zones(_, _)
translate_zones(points, cells) ==
    IF cells = <<>> THEN <<>>
    ELSE LET c == Head(cells)
             rest == translate_zones(points, Tail(cells))
         IN  IF c.type \notin DOMAIN meshio_only THEN rest
             ELSE LET key == meshio_only[c.type]
                      data == [r \in 1..Len(c.data) |-> Reorder(points, key, c.data[r])]
                  IN  <<[type |-> key, data |-> data]>> \o rest

---------------------------------------------------------------------------
(* Orientation: _translate_zones on one cell of every type write accepts,  *)
(* over every placement of the four vertices the test reads.               *)

\* The coordinates a vertex is drawn from: the corners of the unit cube,
\* then points with negative and larger coordinates.
LatticePts ==
    << <<0, 0, 0>>, <<1, 0, 0>>, <<0, 1, 0>>, <<0, 0, 1>>,
       <<1, 1, 0>>, <<1, 0, 1>>, <<0, 1, 1>>, <<1, 1, 1>>,
       <<-1, 2, 0>>, <<2, -1, 3>>, <<-2, -1, -1>>, <<3, 3, -2>> >>

NumLattice == 9

Lattice == {LatticePts[i] : i \in 1..NumLattice}

\* One block of one cell of type key over points 0..n-1, whose four tested
\* vertices sit at q; the other points (never read by the test) at the origin.
ZoneMesh(key, q) ==
    LET n == NumNodes[key]
        four == SubSeq(meshio_to_flac3d_order[meshio_only[key]], 1, 4)
        at(i) == IF \E j \in 1..4 : four[j] = i
                 THEN q[CHOOSE j \in 1..4 : four[j] = i] ELSE <<0, 0, 0>>
    IN  [ points |-> [i \in 1..n |-> at(i - 1)],
          cells  |-> << [type |-> key, data |-> << [i \in 1..n |-> i - 1] >>] >> ]

InitZones ==
    /\ \E key \in DOMAIN meshio_only :
       \E q \in [1..4 -> Lattice] : mesh = ZoneMesh(key, q)
    /\ zones = <<>>
    /\ pc = "start"
    /\ rd = Unused
    /\ given = Unused
    /\ binary = Unused
    /\ wr = Unused

TranslateZones ==
    /\ pc = "start"
    /\ zones' = translate_zones(mesh.points, mesh.cells)
    /\ pc' = "translated"
    /\ UNCHANGED <<mesh, rd, given, binary, wr>>

NextZones == TranslateZones

SpecZones == InitZones /\ [][NextZones]_vars

\* The cell handed in, its emitted row, and the triple product over the
\* first four vertices of a row.
ZCell == mesh.cells[1].data[1]
ZRow == zones[1].data[1]
ZKey == meshio_only[mesh.cells[1].type]
TripleProduct(row) == Det(mesh.points, SubSeq(row, 1, 4))
IsPermutationOf(row, verts) ==
    /\ Len(row) = Len(verts)
    /\ \A v \in Range(verts) :
          Cardinality({i \in DOMAIN row : row[i] = v})
              = Cardinality({i \in DOMAIN verts : verts[i] = v})

\* C4 as stated: for every type write accepts, the emitted row is a
\* permutation of the cell's vertices, its triple product is non-negative,
\* and the primary order is emitted exactly when the product under it is > 0.
C4_Original ==
    pc = "translated" =>
        /\ IsPermutationOf(ZRow, ZCell)
        /\ TripleProduct(ZRow) >= 0
        /\ (ZRow = Take(ZCell, meshio_to_flac3d_order[ZKey]))
              = (TripleProduct(Take(ZCell, meshio_to_flac3d_order[ZKey])) > 0)

\* C4 amended: the emitted row is a permutation of the cell's corner
\* vertices (its first 4, 5, 6 or 8 vertices: all of them for a first-order
\* type, the higher-order nodes being dropped), the triple product over the
\* first four vertices of the emitted row is non-negative, and the primary
\* order is emitted exactly when the product under it is > 0.
C4_Orientation ==
    pc = "translated" =>
        /\ Len(zones) = 1
        /\ zones[1].type = ZKey
        /\ IsPermutationOf(ZRow, SubSeq(ZCell, 1, meshio_type_to_numnodes[ZKey]))
        /\ TripleProduct(ZRow) >= 0
        /\ (ZRow = Take(ZCell, meshio_to_flac3d_order[ZKey]))
              = (TripleProduct(Take(ZCell, meshio_to_flac3d_order[ZKey])) > 0)

\* A left-handed hexahedron was emitted under the mirrored order.
C4_Witness ==
    /\ pc = "translated"
    /\ mesh.cells[1].type = "hexahedron"
    /\ TripleProduct(Take(ZCell, meshio_to_flac3d_order[ZKey])) < 0
    /\ ZRow = Take(ZCell, meshio_to_flac3d_order_2[ZKey])
    /\ TripleProduct(ZRow) > 0


---------------------------------------------------------------------------
(* Numbers and their text: str / "{}".format and int, "{:.15e}" and float. *)

IntStr ==
    << "0", "1", "2", "3", "4", "5", "6", "7", "8", "9", "10", "11", "12",
       "13", "14", "15", "16", "17", "18", "19", "20", "21", "22", "23", "24",
       "25", "26", "27", "28", "29", "30" >>

FormatInt(i) == IntStr[i + 1]
IsInt(s) == \E i \in DOMAIN IntStr : IntStr[i] = s
ParseInt(s) == (CHOOSE i \in DOMAIN IntStr : IntStr[i] = s) - 1

FloatStr ==
    << "-3.000000000000000e+00", "-2.000000000000000e+00", "-1.000000000000000e+00",
       "0.000000000000000e+00", "1.000000000000000e+00", "2.000000000000000e+00",
       "3.000000000000000e+00" >>

FormatFloat(x) == FloatStr[x + 4]
ParseFloat(s) == (CHOOSE i \in DOMAIN FloatStr : FloatStr[i] = s) - 4

\* '"{}"'.format(name) and name.replace('"', "") over the names of the model
Names == {"a", "b", "c", "d", "None"} \cup Range(IntStr)
Quote(name) == "\"" \o name \o "\""
Unquote(tok) ==
    IF \E n \in Names : Quote(n) = tok THEN CHOOSE n \in Names : Quote(n) = tok ELSE tok

---------------------------------------------------------------------------
(* read_buffer and its helpers.  The reader's state is one record: the     *)
(* file f, the stream position pos (the number of fields or lines          *)
(* consumed), the locals of read_buffer, and status: "reading", "done", or *)
(* the exception that ended the read.  phase and left hold the place in    *)
(* the binary branch's three counted loops.  groups and appended are       *)
(* history: what _read_zgroup returned and what _update_cells was given.   *)

InitRd(f, is_binary) ==
    [ f |-> f, pos |-> 0, is_binary |-> is_binary,
      phase |-> IF is_binary THEN "header" ELSE "lines", left |-> 0,
      points |-> <<>>, point_ids |-> <<>>, cells |-> <<>>, mapper |-> <<>>,
      field_data |-> <<>>, slots |-> {},
      pidx |-> 0, zidx |-> 0, count |-> 0,
      status |-> "reading", mesh |-> <<>>,
      groups |-> <<>>, appended |-> <<>> ]

Fail(r, err) == [r EXCEPT !.status = err]

\* f.readline().rstrip().split(): the tokens of the line at pos, none for a
\* blank line and at the end of the file
ReadLine(f, pos) == IF pos < Len(f) THEN f[pos + 1] ELSE <<>>

\* f.tell() after that readline
AfterLine(f, pos) == IF pos < Len(f) THEN pos + 1 ELSE pos

\* numpy.fromfile(f, dtype, n) at pos
FromFile(f, pos, n) == SubSeq(f, pos + 1, pos + n)

read_point(r, line) ==
    IF r.is_binary
    THEN [ pid   |-> FromFile(r.f, r.pos, 1)[1],
           point |-> FromFile(r.f, r.pos + 1, 3),
           pos   |-> r.pos + 4 ]
    ELSE [ pid   |-> ParseInt(line[2]),
           point |-> [j \in 1..(Len(line) - 2) |-> ParseFloat(line[j + 2])],
           pos   |-> AfterLine(r.f, r.pos) ]

\* A plausible slip: the seventh vertex of a degenerate cell not repeated.
read_cell_no_b7(r, line) ==
    LET num_verts == FromFile(r.f, r.pos, 2)[2]
        cid  == IF r.is_binary THEN FromFile(r.f, r.pos, 2)[1] ELSE ParseInt(line[3])
        ids  == IF r.is_binary THEN FromFile(r.f, r.pos + 2, num_verts)
                ELSE [j \in 1..(Len(line) - 3) |-> ParseInt(line[j + 3])]
        pos  == IF r.is_binary THEN r.pos + 2 + num_verts ELSE AfterLine(r.f, r.pos)
    IN  IF \E j \in DOMAIN ids : ids[j] \notin DOMAIN r.point_ids
        THEN [err |-> "KeyError", cid |-> cid, cell |-> <<>>, pos |-> pos]
        ELSE [err |-> "", cid |-> cid,
              cell |-> [j \in DOMAIN ids |-> r.point_ids[ids[j]]], pos |-> pos]

read_cell(r, line) ==
    LET num_verts == FromFile(r.f, r.pos, 2)[2]
        cid  == IF r.is_binary THEN FromFile(r.f, r.pos, 2)[1] ELSE ParseInt(line[3])
        ids  == IF r.is_binary THEN FromFile(r.f, r.pos + 2, num_verts)
                ELSE [j \in 1..(Len(line) - 3) |-> ParseInt(line[j + 3])]
        is_b7 == IF r.is_binary THEN num_verts = 7 ELSE line[2] = "B7"
        pos  == IF r.is_binary THEN r.pos + 2 + num_verts ELSE AfterLine(r.f, r.pos)
    IN  IF \E j \in DOMAIN ids : ids[j] \notin DOMAIN r.point_ids
        THEN [err |-> "KeyError", cid |-> cid, cell |-> <<>>, pos |-> pos]
        ELSE LET cell == [j \in DOMAIN ids |-> r.point_ids[ids[j]]]
             IN  [err |-> "", cid |-> cid,
                  cell |-> IF is_b7 THEN Append(cell, cell[Len(cell)]) ELSE cell,
                  pos |-> pos]

\* A plausible slip of the loop below: the terminating line is not put back
\* (no f.seek(i)).
RECURSIVE scan_zgroup_no_seek(_, _, _)
scan_zgroup_no_seek(f, i, data) ==
    LET line == ReadLine(f, i)
    IN  IF line /= <<>> /\ line[1] \notin {"*", "ZGROUP"}
        THEN IF \E j \in DOMAIN line : ~IsInt(line[j])
             THEN [err |-> "ValueError", data |-> data, pos |-> AfterLine(f, i)]
             ELSE scan_zgroup_no_seek(f, AfterLine(f, i),
                              data \o [j \in DOMAIN line |-> ParseInt(line[j])])
        ELSE [err |-> "", data |-> data, pos |-> AfterLine(f, i)]

\* The loop of the text branch of _read_zgroup from the line at i = f.tell():
\* member lines are consumed until a blank line, the end of the file, a
\* comment or a ZGROUP header, and f.seek(i) puts that line back.
RECURSIVE scan_zgroup(_, _, _)
scan_zgroup(f, i, data) ==
    LET line == ReadLine(f, i)
    IN  IF line /= <<>> /\ line[1] \notin {"*", "ZGROUP"}
        THEN IF \E j \in DOMAIN line : ~IsInt(line[j])
             THEN [err |-> "ValueError", data |-> data, pos |-> AfterLine(f, i)]
             ELSE scan_zgroup(f, AfterLine(f, i),
                              data \o [j \in DOMAIN line |-> ParseInt(line[j])])
        ELSE [err |-> "", data |-> data, pos |-> i]

\* _read_zgroup; in the text branch line is the ZGROUP header the driver
\* read and r.pos the position after it
read_zgroup(r, line) ==
    IF r.is_binary
    THEN LET num_zones == FromFile(r.f, r.pos + 4, 1)[1]
         IN  [ err  |-> "",
               name |-> FromFile(r.f, r.pos + 1, 1)[1],
               slot |-> FromFile(r.f, r.pos + 3, 1)[1],
               data |-> FromFile(r.f, r.pos + 5, num_zones),
               pos  |-> r.pos + 5 + num_zones ]
    ELSE LET s == scan_zgroup(r.f, AfterLine(r.f, r.pos), <<>>)
         IN  [ err  |-> s.err,
               name |-> Unquote(line[2]),
               slot |-> IF "SLOT" \in Range(line) THEN line[Len(line)] ELSE "",
               data |-> s.data,
               pos  |-> s.pos ]

\* A plausible slip: every cell opens a block of its own.
update_cells_no_merge(cells, cell) ==
    IF Len(cell) \notin DOMAIN numnodes_to_meshio_type
    THEN [err |-> "KeyError", cells |-> cells]
    ELSE [err |-> "",
          cells |-> Append(cells, [type |-> numnodes_to_meshio_type[Len(cell)],
                                   data |-> <<cell>>])]

update_cells(cells, cell) ==
    IF Len(cell) \notin DOMAIN numnodes_to_meshio_type
    THEN [err |-> "KeyError", cells |-> cells]
    ELSE LET cell_type == numnodes_to_meshio_type[Len(cell)]
         IN  IF Len(cells) > 0 /\ cell_type = cells[Len(cells)].type
             THEN [err |-> "",
                   cells |-> [cells EXCEPT ![Len(cells)].data = Append(@, cell)]]
             ELSE [err |-> "",
                   cells |-> Append(cells, [type |-> cell_type, data |-> <<cell>>])]

\* for cid in data: mapper[cid].append(zidx)
RECURSIVE append_zidx(_, _, _)
append_zidx(mapper, data, zidx) ==
    IF data = <<>> THEN [err |-> "", mapper |-> mapper]
    ELSE IF Head(data) \notin DOMAIN mapper THEN [err |-> "KeyError", mapper |-> mapper]
    ELSE append_zidx([mapper EXCEPT ![Head(data)] = Append(@, zidx)], Tail(data), zidx)

update_field_data(field_data, mapper, data, name, zidx) ==
    LET m == append_zidx(mapper, data, zidx)
    IN  IF m.err /= "" THEN [err |-> m.err, field_data |-> field_data, mapper |-> m.mapper]
        ELSE [err |-> "", field_data |-> (name :> <<zidx, 3>>) @@ field_data,
              mapper |-> m.mapper]

\* A plausible slip: the slot set is kept but never checked.
update_slots_no_check(slots, slot) == [err |-> "", slots |-> slots \cup {slot}]

update_slots(slots, slot) ==
    IF Cardinality(slots \cup {slot}) > 1
    THEN [err |-> "ReadError", slots |-> slots \cup {slot}]
    ELSE [err |-> "", slots |-> slots \cup {slot}]

---------------------------------------------------------------------------
(* The steps of read_buffer.  Each takes the reader's state to the state   *)
(* after one pass through a loop body of the code.                         *)

\* binary: the two header words and num_nodes
HeaderStep(r) ==
    [r EXCEPT !.pos = r.pos + 3, !.phase = "points", !.left = FromFile(r.f, r.pos + 2, 1)[1]]

\* binary, between two loops: num_cells, num_groups
CountStep(r) ==
    [r EXCEPT !.pos = r.pos + 1,
              !.phase = IF r.phase = "points" THEN "cells" ELSE "groups",
              !.left = FromFile(r.f, r.pos, 1)[1]]

PointStep(r) ==
    LET p == read_point(r, ReadLine(r.f, r.pos))
    IN  [r EXCEPT !.pos = p.pos,
                  !.points = Append(r.points, p.point),
                  !.point_ids = (p.pid :> r.pidx) @@ r.point_ids,
                  !.pidx = r.pidx + 1,
                  !.left = IF r.is_binary THEN r.left - 1 ELSE r.left]

CellStep(r) ==
    LET c == read_cell(r, ReadLine(r.f, r.pos))
        u == update_cells(r.cells, c.cell)
    IN  IF c.err /= "" THEN Fail([r EXCEPT !.pos = c.pos], c.err)
        ELSE IF u.err /= ""
        THEN Fail([r EXCEPT !.pos = c.pos, !.appended = Append(r.appended, c.cell)], u.err)
        ELSE [r EXCEPT !.pos = c.pos,
                       !.cells = u.cells,
                       !.mapper = (c.cid :> <<r.count>>) @@ r.mapper,
                       !.count = r.count + 1,
                       !.left = IF r.is_binary THEN r.left - 1 ELSE r.left,
                       !.appended = Append(r.appended, c.cell)]

ZGroupStep(r) ==
    LET z == read_zgroup(r, ReadLine(r.f, r.pos))
        g == [name |-> z.name, slot |-> z.slot, data |-> z.data]
        u == update_field_data(r.field_data, r.mapper, z.data, z.name, r.zidx + 1)
        s == update_slots(r.slots, z.slot)
        r1 == [r EXCEPT !.pos = z.pos]
        r2 == [r1 EXCEPT !.groups = Append(r.groups, g),
                         !.field_data = u.field_data, !.mapper = u.mapper]
    IN  IF z.err /= "" THEN Fail(r1, z.err)
        ELSE IF u.err /= "" THEN Fail(r2, u.err)
        ELSE IF s.err /= "" THEN Fail([r2 EXCEPT !.slots = s.slots], s.err)
        ELSE [r2 EXCEPT !.slots = s.slots,
                        !.zidx = r.zidx + 1,
                        !.left = IF r.is_binary THEN r.left - 1 ELSE r.left]

\* text: a line that is no point, cell or group header (a comment)
OtherStep(r) == [r EXCEPT !.pos = AfterLine(r.f, r.pos)]

\* The per-cell label array of lines 152-157: one entry per cell, the entry
\* at a cell's index set from the cell's [index, zone] pair in mapper.
\* (numpy.empty leaves an entry no pair names uninitialized; the cell ids of
\* a file are unique, every cell has its pair, and no such entry exists.)
CellLabels(mapper, total) ==
    [i \in 1..total |->
        LET cid == CHOOSE k \in DOMAIN mapper : mapper[k][1] = i - 1
        IN  mapper[cid][2]]

\* numpy.split(cell_data, num_cells[:-1]): the labels block by block
RECURSIVE SplitBy(_, _)
SplitBy(labels, cells) ==
    IF cells = <<>> THEN <<>>
    ELSE LET n == Len(Head(cells).data)
         IN  <<SubSeq(labels, 1, n)>> \o SplitBy(SubSeq(labels, n + 1, Len(labels)), Tail(cells))

\* [(k, numpy.array(v)[:, flac3d_to_meshio_order[k]]) for k, v in cells]
MeshCells(cells) ==
    [b \in DOMAIN cells |->
        [type |-> cells[b].type,
         data |-> [i \in DOMAIN cells[b].data |->
                      Take(cells[b].data[i], flac3d_to_meshio_order[cells[b].type])]]]

\* Lines 152-166: the label array, then the mesh.  The text branch comes
\* here from the readline that returned no token.
ProjectStep(r) ==
    LET total == SumSeq([b \in DOMAIN r.cells |-> Len(r.cells[b].data)])
        r1 == [r EXCEPT !.pos = IF r.is_binary THEN r.pos ELSE AfterLine(r.f, r.pos),
                        !.phase = "project"]
        out(cell_data) ==
            [r1 EXCEPT !.status = "done",
                       !.mesh = [points |-> r.points, cells |-> MeshCells(r.cells),
                                 cell_data |-> cell_data, field_data |-> r.field_data]]
    IN  IF DOMAIN r.field_data = {} THEN out(<<>>)
        ELSE IF r.cells = <<>> THEN Fail(r1, "IndexError")
        ELSE IF \E cid \in DOMAIN r.mapper : Len(r.mapper[cid]) /= 2
        THEN Fail(r1, "ValueError")
        ELSE out(<< [name |-> "flac3d:zone", dtype |-> "int",
                     data |-> SplitBy(CellLabels(r.mapper, total), r.cells)] >>)

\* What comes next in the file, as the code decides it.
AtHeader(r) == r.status = "reading" /\ r.phase = "header"
AtCount(r)  == r.status = "reading" /\ r.phase \in {"points", "cells"} /\ r.left = 0
AtPoint(r)  ==
    /\ r.status = "reading"
    /\ IF r.is_binary THEN r.phase = "points" /\ r.left > 0
       ELSE ReadLine(r.f, r.pos) /= <<>> /\ ReadLine(r.f, r.pos)[1] = "G"
AtCell(r)   ==
    /\ r.status = "reading"
    /\ IF r.is_binary THEN r.phase = "cells" /\ r.left > 0
       ELSE ReadLine(r.f, r.pos) /= <<>> /\ ReadLine(r.f, r.pos)[1] = "Z"
AtZGroup(r) ==
    /\ r.status = "reading"
    /\ IF r.is_binary THEN r.phase = "groups" /\ r.left > 0
       ELSE ReadLine(r.f, r.pos) /= <<>> /\ ReadLine(r.f, r.pos)[1] = "ZGROUP"
AtOther(r)  ==
    /\ r.status = "reading" /\ ~r.is_binary
    /\ ReadLine(r.f, r.pos) /= <<>>
    /\ ReadLine(r.f, r.pos)[1] \notin {"G", "Z", "ZGROUP"}
AtEnd(r)    ==
    /\ r.status = "reading"
    /\ IF r.is_binary THEN r.phase = "groups" /\ r.left = 0
       ELSE ReadLine(r.f, r.pos) = <<>>

\* One pass of read_buffer's loops
Step(r) ==
    CASE AtHeader(r) -> HeaderStep(r)
      [] AtCount(r)  -> CountStep(r)
      [] AtPoint(r)  -> PointStep(r)
      [] AtCell(r)   -> CellStep(r)
      [] AtZGroup(r) -> ZGroupStep(r)
      [] AtOther(r)  -> OtherStep(r)
      [] AtEnd(r)    -> ProjectStep(r)

\* read_buffer from start to return or exception
RECURSIVE read_buffer(_)
read_buffer(r) == IF r.status /= "reading" THEN r ELSE read_buffer(Step(r))

\* The actions of a reader that takes one step at a time.
ReadHeader == AtHeader(rd) /\ rd' = HeaderStep(rd) /\ UNCHANGED <<mesh, zones, pc, given, binary, wr>>
ReadCount  == AtCount(rd)  /\ rd' = CountStep(rd)  /\ UNCHANGED <<mesh, zones, pc, given, binary, wr>>
ReadPoint  == AtPoint(rd)  /\ rd' = PointStep(rd)  /\ UNCHANGED <<mesh, zones, pc, given, binary, wr>>
ReadCell   == AtCell(rd)   /\ rd' = CellStep(rd)   /\ UNCHANGED <<mesh, zones, pc, given, binary, wr>>
ReadZGroup == AtZGroup(rd) /\ rd' = ZGroupStep(rd) /\ UNCHANGED <<mesh, zones, pc, given, binary, wr>>
ReadOther  == AtOther(rd)  /\ rd' = OtherStep(rd)  /\ UNCHANGED <<mesh, zones, pc, given, binary, wr>>
Project    == AtEnd(rd)    /\ rd' = ProjectStep(rd) /\ UNCHANGED <<mesh, zones, pc, given, binary, wr>>

---------------------------------------------------------------------------
(* The records of a file.                                                  *)

\* "G\t{:8}\t{:.15e}\t{:.15e}\t{:.15e}\n".format(i, *point), as tokens
PointLine(i, point) ==
    <<"G", FormatInt(i), FormatFloat(point[1]), FormatFloat(point[2]), FormatFloat(point[3])>>

\* "Z {} {} {} ... {}\n".format(code, i, *entry), as tokens
CellLine(code, i, entry) ==
    <<"Z", code, FormatInt(i)>> \o [j \in DOMAIN entry |-> FormatInt(entry[j])]

\* The first two words of a binary file
Magic == <<1375135718, 3>>

\* The points of the files the reader is given: the first np of NumPoints
\* grid points, ids 1, 2, ... in file order, at the corners of the unit cube.
NumPoints == 8
FilePoints == [i \in 1..NumPoints |-> LatticePts[i]]

TextPoints(np) == [i \in 1..np |-> PointLine(i, FilePoints[i])]
BinPoints(np) == <<np>> \o Flatten([i \in 1..np |-> <<i>> \o FilePoints[i]])

\* A cell record of n vertex ids, 1..n or, reversed, 8 down to 9 - n
CellIds(c) == [j \in 1..c.n |-> IF c.rev THEN NumPoints + 1 - j ELSE j]
TypeCode(n) ==
    IF n = 7 THEN "B7" ELSE meshio_to_flac3d_type[numnodes_to_meshio_type[n]]
TextCells(cs) == [k \in DOMAIN cs |-> CellLine(TypeCode(cs[k].n), k, CellIds(cs[k]))]
BinCells(cs) ==
    <<Len(cs)>> \o Flatten([k \in DOMAIN cs |-> <<k, cs[k].n>> \o CellIds(cs[k])])

\* A zone group record [name, slot, data]; in text the header carries a SLOT
\* token only for a non-empty slot, and lines lists the member ids per line
GroupHeader(g) ==
    IF g.slot = "" THEN <<"ZGROUP", Quote(g.name)>>
    ELSE <<"ZGROUP", Quote(g.name), "SLOT", g.slot>>
MemberLine(ids) == [j \in DOMAIN ids |-> FormatInt(ids[j])]
TextGroups(gs) ==
    Flatten([k \in DOMAIN gs |->
        <<GroupHeader(gs[k])>> \o [l \in DOMAIN gs[k].lines |-> MemberLine(gs[k].lines[l])]])
BinGroups(gs) ==
    <<Len(gs)>> \o Flatten([k \in DOMAIN gs |->
        LET data == Flatten(gs[k].lines)
        IN  <<Len(gs[k].name), gs[k].name, Len(gs[k].slot), gs[k].slot, Len(data)>> \o data])

Comment == <<"*", "FLAC3D">>

TextFile(np, cs, gs) ==
    <<Comment>> \o TextPoints(np) \o <<Comment>> \o TextCells(cs)
        \o <<Comment>> \o TextGroups(gs)
BinFile(np, cs, gs) == Magic \o BinPoints(np) \o BinCells(cs) \o BinGroups(gs) \o <<0, 0>>

SeqsUpTo(S, n) == UNION {[1..k -> S] : k \in 0..n}

---------------------------------------------------------------------------
(* Reading cells: files of up to MaxCells cell records of 4 to 8 vertex    *)
(* ids and no zone group, in both encodings.                               *)

MaxCells == 3

CellRecords == [n : {4, 5, 6, 7, 8}, rev : BOOLEAN]

InitCells ==
    /\ \E cs \in SeqsUpTo(CellRecords, MaxCells), is_binary \in BOOLEAN :
          /\ given = [cells |-> cs, groups |-> <<>>]
          /\ rd = InitRd(IF is_binary THEN BinFile(NumPoints, cs, <<>>)
                                       ELSE TextFile(NumPoints, cs, <<>>), is_binary)
    /\ mesh = Unused
    /\ zones = Unused
    /\ pc = Unused
    /\ binary = Unused
    /\ wr = Unused

NextCells ==
    \/ ReadHeader
    \/ ReadCount
    \/ ReadPoint
    \/ ReadCell
    \/ ReadOther
    \/ Project

SpecCells == InitCells /\ [][NextCells]_vars

BlockRows(cells) == Flatten([b \in DOMAIN cells |-> cells[b].data])

\* C8: after any sequence of appends by _update_cells no two adjacent blocks
\* have the same type, every block is non-empty, and the rows of the blocks
\* in block order are the appended cells in file order.
C8_BlockContiguity ==
    /\ \A b \in DOMAIN rd.cells :
          /\ rd.cells[b].data /= <<>>
          /\ \A i \in DOMAIN rd.cells[b].data :
                numnodes_to_meshio_type[Len(rd.cells[b].data[i])] = rd.cells[b].type
          /\ b > 1 => rd.cells[b - 1].type /= rd.cells[b].type
    /\ BlockRows(rd.cells) = rd.appended

\* Cells of type A, B, A were appended and make three blocks.
C8_Witness ==
    /\ Len(rd.appended) = 3 /\ Len(rd.cells) = 3
    /\ rd.cells[1].type = "tetra" /\ rd.cells[2].type = "hexahedron"
    /\ rd.cells[3].type = "tetra"

\* The k-th cell of the returned mesh, in file order
MeshRow(k) == BlockRows(rd.mesh.cells)[k]
\* The internal indices of the vertex ids of the k-th record
RecordVerts(k) == [j \in 1..given.cells[k].n |-> rd.point_ids[CellIds(given.cells[k])[j]]]

\* C7 as stated: a record of exactly 7 vertex ids is read into an 8-vertex
\* hexahedron cell of the returned mesh whose last two vertices are identical.
C7_Original ==
    /\ rd.status \in {"reading", "done"}
    /\ rd.status = "done" =>
          \A k \in DOMAIN given.cells : given.cells[k].n = 7 =>
              /\ Len(MeshRow(k)) = 8
              /\ MeshRow(k)[7] = MeshRow(k)[8]

\* C7 amended: the read of a 7-vertex record succeeds; the record is
\* normalized into an 8-vertex hexahedron row whose last two vertices are
\* identical in the order of the file (the seventh vertex repeated), and the
\* returned cell is that row under the fixed permutation, so that the
\* repeated vertex sits at positions 5 and 6 (0-based) of the returned cell
\* and the record's sixth vertex at position 7.
C7_Degenerate ==
    /\ rd.status \in {"reading", "done"}
    /\ \A k \in DOMAIN rd.appended : given.cells[k].n = 7 =>
          /\ Len(rd.appended[k]) = 8
          /\ SubSeq(rd.appended[k], 1, 7) = RecordVerts(k)
          /\ rd.appended[k][8] = rd.appended[k][7]
    /\ rd.status = "done" =>
          /\ Len(BlockRows(rd.mesh.cells)) = Len(given.cells)
          /\ \A k \in DOMAIN given.cells : given.cells[k].n = 7 =>
              /\ \E b \in DOMAIN rd.mesh.cells :
                    /\ rd.mesh.cells[b].type = "hexahedron"
                    /\ \E i \in DOMAIN rd.mesh.cells[b].data :
                          rd.mesh.cells[b].data[i] = MeshRow(k)
              /\ Len(MeshRow(k)) = 8
              /\ MeshRow(k) = Take(rd.appended[k], flac3d_to_meshio_order.hexahedron)
              /\ MeshRow(k)[6] = RecordVerts(k)[7]
              /\ MeshRow(k)[7] = RecordVerts(k)[7]
              /\ MeshRow(k)[8] = RecordVerts(k)[6]

\* A binary file with a 7-vertex record was read to the end.
C7_Witness ==
    /\ rd.status = "done" /\ rd.is_binary
    /\ \E k \in DOMAIN given.cells :
          /\ given.cells[k].n = 7
          /\ MeshRow(k)[6] = MeshRow(k)[7]
          /\ MeshRow(k)[7] /= MeshRow(k)[8]

---------------------------------------------------------------------------
(* Reading zone groups: files of NumGroupCells cells (a tetrahedron, a     *)
(* pyramid, a tetrahedron, ...: one block per cell) and up to MaxGroups    *)
(* zone groups, in both encodings.  A group has one of three slot values,  *)
(* the empty one being a text header without a SLOT token, and any set of  *)
(* the cells as its members, listed on one line.                           *)

NumGroupCells == 2
MaxGroups == 2

GroupNames == <<"a", "b", "c", "d">>
Slots == {"", "1", "2"}

GroupCells ==
    [k \in 1..NumGroupCells |-> [n |-> IF k % 2 = 1 THEN 4 ELSE 5, rev |-> FALSE]]

\* The members of a set of cell ids in ascending order
RECURSIVE Ascending(_)
Ascending(S) ==
    IF S = {} THEN <<>>
    ELSE LET m == CHOOSE x \in S : \A y \in S : x <= y
         IN  <<m>> \o Ascending(S \ {m})

GroupChoices == [slot : Slots, members : SUBSET (1..NumGroupCells)]

MakeGroups(ch) ==
    [k \in DOMAIN ch |->
        [name |-> GroupNames[k], slot |-> ch[k].slot,
         lines |-> IF ch[k].members = {} THEN <<>> ELSE <<Ascending(ch[k].members)>>]]

InitGroups ==
    /\ \E ch \in SeqsUpTo(GroupChoices, MaxGroups), is_binary \in BOOLEAN :
          /\ given = [cells |-> GroupCells, groups |-> MakeGroups(ch)]
          /\ rd = InitRd(IF is_binary
                         THEN BinFile(meshio_type_to_numnodes.pyramid, GroupCells, MakeGroups(ch))
                         ELSE TextFile(meshio_type_to_numnodes.pyramid, GroupCells, MakeGroups(ch)),
                         is_binary)
    /\ mesh = Unused
    /\ zones = Unused
    /\ pc = Unused
    /\ binary = Unused
    /\ wr = Unused

NextGroups ==
    \/ ReadHeader
    \/ ReadCount
    \/ ReadPoint
    \/ ReadCell
    \/ ReadZGroup
    \/ ReadOther
    \/ Project

SpecGroups == InitGroups /\ [][NextGroups]_vars

GivenSlots(n) == {given.groups[k].slot : k \in 1..n}
GivenMembers(k) == Range(Flatten(given.groups[k].lines))

\* C5: read fails with a read error at the first group record whose slot
\* differs from the slot of an earlier record, never returns a mesh for a
\* file with two distinct slot values, and does not reject a file whose
\* groups all carry the same slot.
C5_SingleSlot ==
    LET n == Len(rd.groups)
    IN  /\ n <= Len(given.groups)
        /\ \A k \in 1..n : rd.groups[k].slot = given.groups[k].slot
        /\ rd.slots = GivenSlots(n)
        /\ (rd.status = "ReadError") = (Cardinality(GivenSlots(n)) > 1)
        /\ rd.status = "ReadError" => Cardinality(GivenSlots(n - 1)) = 1
        /\ rd.status = "done" =>
              /\ n = Len(given.groups)
              /\ Cardinality(GivenSlots(Len(given.groups))) <= 1
        /\ rd.phase = "project" =>
              /\ n = Len(given.groups)
              /\ Cardinality(GivenSlots(Len(given.groups))) <= 1

\* The second group record carried a second slot and the read failed there.
C5_Witness ==
    /\ rd.status = "ReadError"
    /\ Len(rd.groups) = 2
    /\ Len(given.groups) = 2
    /\ rd.groups[1].slot = "1" /\ rd.groups[2].slot = "2"

\* The labels of the returned mesh, cell by cell
MeshLabels == Flatten(rd.mesh.cell_data[1].data)
\* The groups, by number, the k-th cell is a member of
GroupsOf(k) == {g \in DOMAIN given.groups : k \in GivenMembers(g)}

\* C3: when a file contains at least one zone group (of one slot, no cell in
\* two groups), read succeeds and the label array has one integer per cell:
\* 0 for a cell that is a member of no group, g for a member of group g.
C3_LabelProjection ==
    ( /\ given.groups /= <<>>
      /\ Cardinality(GivenSlots(Len(given.groups))) = 1
      /\ \A k \in DOMAIN given.cells : Cardinality(GroupsOf(k)) <= 1 )
    => /\ rd.status \in {"reading", "done"}
       /\ rd.status = "done" =>
             /\ Len(rd.mesh.cell_data) = 1
             /\ Len(MeshLabels) = Len(given.cells)
             /\ \A k \in DOMAIN given.cells :
                   /\ GroupsOf(k) = {} => MeshLabels[k] = 0
                   /\ \A g \in GroupsOf(k) : MeshLabels[k] = g

---------------------------------------------------------------------------
(* Reading text zone groups line by line: the points and the two cells of  *)
(* a text file and the group "a" of its first cell, then up to MaxTail     *)
(* lines, each a ZGROUP header, a line of member ids, a comment or a blank *)
(* line, in any order.                                                     *)

MaxTail == 2

TailLines ==
    { <<"ZGROUP", Quote("a")>>, <<"ZGROUP", Quote("b")>>,
      <<"1">>, <<"2">>, Comment, <<>> }

TextCellRecords == <<[n |-> 4, rev |-> FALSE], [n |-> 4, rev |-> FALSE]>>
TextGroupRecords == <<[name |-> "a", slot |-> "", lines |-> << <<1>> >>]>>

InitText ==
    /\ \E tail \in SeqsUpTo(TailLines, MaxTail) :
          rd = InitRd(TextFile(meshio_type_to_numnodes.tetra, TextCellRecords,
                               TextGroupRecords) \o tail, FALSE)
    /\ given = [cells |-> TextCellRecords, groups |-> TextGroupRecords]
    /\ mesh = Unused
    /\ zones = Unused
    /\ pc = Unused
    /\ binary = Unused
    /\ wr = Unused

NextText ==
    \/ ReadPoint
    \/ ReadCell
    \/ ReadZGroup
    \/ ReadOther
    \/ Project

\* read_buffer runs its loop without interruption: a step that can be taken
\* is taken.
SpecText == InitText /\ [][NextText]_vars /\ WF_vars(NextText)

\* The grammar of the group section, stated on the lines of the file (lines
\* are numbered from 1 here; the line numbered h starts at position h - 1).
IsHeader(line) == line /= <<>> /\ line[1] = "ZGROUP"
IsTerminator(line) == line = <<>> \/ line[1] \in {"*", "ZGROUP"}
\* the line at which the driver stops: the first blank line, or the end
StopLine(f) ==
    CHOOSE b \in 1..(Len(f) + 1) :
        /\ b = Len(f) + 1 \/ f[b] = <<>>
        /\ \A j \in 1..(b - 1) : f[j] /= <<>>
\* the last of the member lines that follow the header at line h
LastMember(f, h) ==
    CHOOSE e \in h..Len(f) :
        /\ \A j \in (h + 1)..e : ~IsTerminator(f[j])
        /\ e = Len(f) \/ IsTerminator(f[e + 1])
\* a header the driver meets: one not among the member lines of a group
\* (no header is), before the line at which the driver stops
HeadersBefore(f, p) == {h \in 1..Len(f) : IsHeader(f[h]) /\ h < StopLine(f) /\ h <= p}
GroupAt(f, h) ==
    [ name |-> Unquote(f[h][2]),
      slot |-> "",
      data |-> Flatten([j \in 1..(LastMember(f, h) - h) |->
                           [t \in DOMAIN f[h + j] |-> ParseInt(f[h + j][t])]]) ]
GroupsBefore(f, p) ==
    LET hs == Ascending(HeadersBefore(f, p))
    IN  [k \in DOMAIN hs |-> GroupAt(f, hs[k])]

\* Every header before the stream position was processed once, in file
\* order, with the member lines that follow it and no other.
C9_Groups == rd.groups = GroupsBefore(rd.f, rd.pos)

\* The text group reader returns with the stream at the start of the line
\* that ended the group, and every pass of the driver's loop moves on.
C9_Step ==
    /\ AtZGroup(rd) =>
          /\ rd'.pos = LastMember(rd.f, rd.pos + 1)
          /\ IsTerminator(ReadLine(rd.f, rd'.pos))
    /\ rd.status = "reading" => rd'.pos > rd.pos \/ rd'.status /= "reading"

\* C9: when the text zone-group reader returns, the stream position is the
\* start of the line that terminated the group (a blank line or the end of
\* the file, a comment, a ZGROUP header), the next line the driver reads;
\* every ZGROUP header is processed exactly once, no member line goes to
\* the wrong group, and the read loop terminates.
C9_GroupBoundary ==
    /\ []C9_Groups
    /\ [][C9_Step]_vars
    /\ <>(rd.status /= "reading")

\* Two groups back to back were read, each with its own member line.
C9_Witness ==
    /\ rd.status = "done"
    /\ Len(rd.groups) = 2
    /\ rd.groups[1] = [name |-> "a", slot |-> "", data |-> <<1>>]
    /\ rd.groups[2] = [name |-> "b", slot |-> "", data |-> <<2>>]
    /\ Len(rd.f) = rd.pos

---------------------------------------------------------------------------
(* write and its helpers.  A mesh is [points, cells, cell_data,            *)
(* field_data]: cells the list of blocks [type, data], cell_data the list  *)
(* (a dict, in insertion order) of arrays [name, dtype, data], data the    *)
(* list of the per-block label arrays, and field_data the function from a  *)
(* name to <<value, dimension>>.                                           *)

\* any(c.type in meshio_only.keys() for c in mesh.cells)
HasSupported(cells) == \E b \in DOMAIN cells : cells[b].type \in DOMAIN meshio_only

\* _write_points
write_points(points) == [i \in DOMAIN points |-> PointLine(i, points[i])]

\* The rows of the zones in the order of emission, each with its type
ZoneRows(zs) ==
    Flatten([z \in DOMAIN zs |->
        [r \in DOMAIN zs[z].data |-> [type |-> zs[z].type, entry |-> zs[z].data[r]]]])

PlusOne(row) == [j \in DOMAIN row |-> row[j] + 1]

\* _write_cells
write_cells(points, cells) ==
    LET rows == ZoneRows(translate_zones(points, cells))
    IN  [i \in DOMAIN rows |->
            CellLine(meshio_to_flac3d_type[rows[i].type], i, PlusOne(rows[i].entry))]

\* _pick_first_int_data: the first array of integer type, 0 for None
pick_first_int_data(cell_data) ==
    IF \E k \in DOMAIN cell_data : cell_data[k].dtype = "int"
    THEN CHOOSE k \in DOMAIN cell_data :
            /\ cell_data[k].dtype = "int"
            /\ \A j \in 1..(k - 1) : cell_data[j].dtype /= "int"
    ELSE 0

\* numpy.concatenate(mesh.cell_data[key])
Material(cell_data, key) == Flatten(cell_data[key].data)

\* A plausible slip: a group is named by its number, whatever field_data says.
LabelOfNoNames(field_data, k) == IF k = 0 THEN "None" ELSE FormatInt(k)

\* labels[k] of _translate_zgroups: str(k), "None" for 0, and over both the
\* name field_data gives the value k with dimension 3 (no two names of the
\* meshes here share a value)
LabelOf(field_data, k) ==
    IF \E n \in DOMAIN field_data : field_data[n] = <<k, 3>>
    THEN CHOOSE n \in DOMAIN field_data : field_data[n] = <<k, 3>>
    ELSE IF k = 0 THEN "None" ELSE FormatInt(k)

\* numpy.nonzero(zone_data == k)[0] + 1
Members(zone_data, k) ==
    Ascending({i \in DOMAIN zone_data : zone_data[i] = k})

\* _translate_zgroups: the groups in ascending order of their label value,
\* as write walks them (sorted(zgroups.keys()))
translate_zgroups(zone_data, field_data) ==
    LET keys == Ascending(Range(zone_data))
    IN  [g \in DOMAIN keys |->
            [name |-> LabelOf(field_data, keys[g]), data |-> Members(zone_data, keys[g])]]

ncol == 20

\* _write_zgroup: the ids ncol to a line, no empty line
write_zgroup(data) ==
    LET nrow == Len(data) \div ncol
        nline == IF Len(data) % ncol = 0 THEN nrow ELSE nrow + 1
        Min(a, b) == IF a < b THEN a ELSE b
    IN  [l \in 1..nline |->
            MemberLine(SubSeq(data, (l - 1) * ncol + 1, Min(l * ncol, Len(data))))]

\* The binary cell records: id, number of vertices, vertices + 1
BinCellRecords(points, cells) ==
    LET rows == ZoneRows(translate_zones(points, cells))
    IN  [i \in DOMAIN rows |-> <<i, Len(rows[i].entry)>> \o PlusOne(rows[i].entry)]

\* sum(len(c.data) for c in mesh.cells)
BinCellCount(cells) == SumSeq([b \in DOMAIN cells |-> Len(cells[b].data)])

NoFile == [head |-> <<>>, points |-> <<>>, cells |-> <<>>, groups |-> <<>>, tail |-> <<>>]

\* write, text branch
write_text(m) ==
    LET key == pick_first_int_data(m.cell_data)
        zgroups == translate_zgroups(Material(m.cell_data, key), m.field_data)
    IN  [ status |-> "ok",
          head   |-> << <<"*", "FLAC3D", "grid", "produced", "by", "meshio">>,
                        <<"*", "ctime">> >>,
          points |-> << <<"*", "GRIDPOINTS">> >> \o write_points(m.points),
          cells  |-> << <<"*", "ZONES">> >> \o write_cells(m.points, m.cells),
          groups |-> IF m.cell_data /= <<>> /\ key /= 0
                     THEN << <<"*", "ZONE", "GROUPS">> >> \o
                          Flatten([g \in DOMAIN zgroups |->
                              << <<"ZGROUP", Quote(zgroups[g].name)>> >>
                                  \o write_zgroup(zgroups[g].data)])
                     ELSE <<>>,
          tail   |-> <<>>,
          count  |-> 0, records |-> <<>>, ngroups |-> 0 ]

\* write, binary branch.  material is assigned only under
\* "if mesh.cell_data:", and "if material is not None" after it reads a
\* local that was never bound when the mesh has no cell data.
write_binary(m) ==
    LET key == pick_first_int_data(m.cell_data)
        zgroups == translate_zgroups(Material(m.cell_data, key), m.field_data)
        written ==
            [ status |-> "ok",
              head   |-> Magic,
              points |-> <<Len(m.points)>> \o
                         Flatten([i \in DOMAIN m.points |-> <<i>> \o m.points[i]]),
              cells  |-> <<BinCellCount(m.cells)>>
                         \o Flatten(BinCellRecords(m.points, m.cells)),
              groups |-> <<>>,
              tail   |-> <<>>,
              count  |-> BinCellCount(m.cells),
              records |-> BinCellRecords(m.points, m.cells),
              ngroups |-> 0 ]
    IN  IF m.cell_data = <<>>
        THEN [written EXCEPT !.status = "UnboundLocalError"]
        ELSE IF key = 0
        THEN [written EXCEPT !.groups = <<0>>, !.tail = <<0, 0>>]
        ELSE [written EXCEPT
                !.groups = <<Len(zgroups)>> \o
                    Flatten([g \in DOMAIN zgroups |->
                        <<Len(zgroups[g].name), zgroups[g].name, 7, "Default",
                          Len(zgroups[g].data)>> \o zgroups[g].data]),
                !.ngroups = Len(zgroups),
                !.tail = <<0, 0>>]

write(m, bin) ==
    IF ~HasSupported(m.cells)
    THEN NoFile @@ [status |-> "WriteError", count |-> 0, records |-> <<>>, ngroups |-> 0]
    ELSE IF ~bin THEN write_text(m) ELSE write_binary(m)

\* The file as write left it
FileOf(w) == w.head \o w.points \o w.cells \o w.groups \o w.tail

Write ==
    /\ pc = "write"
    /\ wr' = write(mesh, binary)
    /\ pc' = "read"
    /\ UNCHANGED <<mesh, zones, rd, given, binary>>

\* read: the encoding is told from a null byte among the first 8 bytes, which
\* the two words of a binary file have and the comment that opens a text file
\* has not; then read_buffer
Read ==
    /\ pc = "read"
    /\ wr.status = "ok"
    /\ rd' = read_buffer(InitRd(FileOf(wr), binary))
    /\ pc' = "end"
    /\ UNCHANGED <<mesh, zones, given, binary, wr>>

---------------------------------------------------------------------------
(* Meshes handed to write.  The points are the corners of the unit cube,   *)
(* as many as the widest row needs (past the eighth, the corners again); a *)
(* row lists the points 0, 1, 2, ... or, mirrored, 1, 0, 2, ...            *)

NodesOf(type) == IF type \in DOMAIN NumNodes THEN NumNodes[type] ELSE 3

MeshPoints(cells) ==
    LET Max(S) == CHOOSE x \in S : \A y \in S : y <= x
        n == Max({0} \cup {NodesOf(cells[b].type) : b \in DOMAIN cells})
    IN  [i \in 1..n |-> LatticePts[((i - 1) % NumPoints) + 1]]

Row(type) == [j \in 1..NodesOf(type) |-> j - 1]
Mirrored(type) == [j \in 1..NodesOf(type) |-> IF j = 1 THEN 1 ELSE IF j = 2 THEN 0 ELSE j - 1]

\* One array of cell data over the blocks of cells, the flat labels given
CellData(name, dtype, cells, flat) ==
    [name |-> name, dtype |-> dtype, data |-> SplitBy(flat, cells)]

NumCells(cells) == SumSeq([b \in DOMAIN cells |-> Len(cells[b].data)])

---------------------------------------------------------------------------
(* Writing: meshes of up to MaxBlocks blocks of one or two cells, of every *)
(* type write accepts and of one it skips (triangle), without cell data,   *)
(* with a float array, an integer array, or both; text and binary.         *)

MaxBlocks == 2

WriteTypes == DOMAIN meshio_only \cup {"triangle"}

WriteBlocks ==
    { [type |-> t, data |-> [r \in 1..k |-> Row(t)]] : t \in WriteTypes, k \in {1, 2} }

WriteCellData(cells) ==
    LET f == CellData("f", "float", cells, [k \in 1..NumCells(cells) |-> 0])
        z == CellData("flac3d:zone", "int", cells, [k \in 1..NumCells(cells) |-> 1])
    IN  { <<>>, <<f>>, <<z>>, <<f, z>> }

InitWrite ==
    /\ \E cells \in SeqsUpTo(WriteBlocks, MaxBlocks) :
       \E cd \in WriteCellData(cells) :
          mesh = [points |-> MeshPoints(cells), cells |-> cells,
                  cell_data |-> cd, field_data |-> <<>>]
    /\ binary \in BOOLEAN
    /\ pc = "write"
    /\ wr = NoFile
    /\ zones = Unused
    /\ rd = Unused
    /\ given = Unused

NextWrite == Write

SpecWrite == InitWrite /\ [][NextWrite]_vars

\* C6: a mesh with at least one supported cell block and no usable integer
\* label array (a mesh without cell data included) is written without error
\* in both encodings: the points, the cells, and no zone group (binary: a
\* group count of 0, then the two zero words).
C6_WriteWithoutLabels ==
    ( /\ pc /= "write"
      /\ HasSupported(mesh.cells)
      /\ pick_first_int_data(mesh.cell_data) = 0 )
    => /\ wr.status = "ok"
       /\ wr.points /= <<>> /\ wr.cells /= <<>>
       /\ wr.ngroups = 0
       /\ wr.groups = IF binary THEN <<0>> ELSE <<>>
       /\ wr.tail = IF binary THEN <<0, 0>> ELSE <<>>

\* C10: in a binary file that write completed, the cell count at the head of
\* the cells section is the number of cell records after it, and their ids
\* are 1..count in order.
C10_CellCount ==
    (pc /= "write" /\ binary /\ wr.status = "ok")
    => /\ wr.cells[1] = wr.count
       /\ wr.count = Len(wr.records)
       /\ \A k \in DOMAIN wr.records : wr.records[k][1] = k

---------------------------------------------------------------------------
(* Round trip: meshes of up to MaxRTBlocks blocks of first-order cells,    *)
(* one or two to a block, in either winding, without cell data or with a   *)
(* label for every cell; written, then read back.                          *)

MaxRTBlocks == 2

FirstOrder == DOMAIN meshio_type_to_numnodes

RTBlocks ==
    UNION { { [type |-> t, data |-> d] :
                d \in {<<Row(t)>>, <<Mirrored(t)>>, <<Row(t), Mirrored(t)>>} } :
            t \in FirstOrder }

RTCellData(cells) ==
    { <<>>,
      <<CellData("flac3d:zone", "int", cells, [k \in 1..NumCells(cells) |-> k % 2])>> }

InitRoundTrip ==
    /\ \E cells \in SeqsUpTo(RTBlocks, MaxRTBlocks) \ {<<>>} :
       \E cd \in RTCellData(cells) :
          mesh = [points |-> MeshPoints(cells), cells |-> cells,
                  cell_data |-> cd, field_data |-> ("a" :> <<1, 3>>)]
    /\ binary \in BOOLEAN
    /\ pc = "write"
    /\ wr = NoFile
    /\ zones = Unused
    /\ rd = Unused
    /\ given = Unused

NextRoundTrip == Write \/ Read

SpecRoundTrip == InitRoundTrip /\ [][NextRoundTrip]_vars

CountOfType(cells, t) ==
    SumSeq([b \in DOMAIN cells |-> IF cells[b].type = t THEN Len(cells[b].data) ELSE 0])

\* C1: for a mesh of first-order cells, in either encoding, write followed
\* by read yields the same number of points, the same number of cells of
\* each type, and for every cell, in the same order, the same set of vertices.
C1_RoundTrip ==
    /\ pc /= "write" => wr.status = "ok"
    /\ pc = "end" =>
          /\ rd.status = "done"
          /\ Len(rd.mesh.points) = Len(mesh.points)
          /\ \A t \in FirstOrder :
                CountOfType(rd.mesh.cells, t) = CountOfType(mesh.cells, t)
          /\ Len(BlockRows(rd.mesh.cells)) = Len(BlockRows(mesh.cells))
          /\ \A k \in DOMAIN BlockRows(mesh.cells) :
                Range(BlockRows(rd.mesh.cells)[k]) = Range(BlockRows(mesh.cells)[k])

---------------------------------------------------------------------------
(* Label round trip: meshes of up to MaxLabelCells cells (two tetrahedra,  *)
(* a pyramid, a hexahedron, ...), every cell with a label of 0..MaxLabel,  *)
(* any set of the non-zero labels named in field_data; written as text,    *)
(* then read.                                                              *)

MaxLabelCells == 3
MaxLabel == 2

LabelTypes == <<"tetra", "tetra", "pyramid", "hexahedron", "wedge", "wedge">>

RECURSIVE LabelBlocks(_)
LabelBlocks(n) ==
    IF n = 0 THEN <<>>
    ELSE update_cells(LabelBlocks(n - 1), Row(LabelTypes[n])).cells

InitLabels ==
    /\ \E n \in 1..MaxLabelCells :
       \E flat \in [1..n -> 0..MaxLabel], named \in SUBSET (1..MaxLabel) :
          mesh = [points |-> MeshPoints(LabelBlocks(n)), cells |-> LabelBlocks(n),
                  cell_data |-> <<CellData("flac3d:zone", "int", LabelBlocks(n), flat)>>,
                  field_data |-> [nm \in {GroupNames[v] : v \in named} |->
                                    <<CHOOSE v \in named : GroupNames[v] = nm, 3>>]]
    /\ binary = FALSE
    /\ pc = "write"
    /\ wr = NoFile
    /\ zones = Unused
    /\ rd = Unused
    /\ given = Unused

NextLabels == Write \/ Read

SpecLabels == InitLabels /\ [][NextLabels]_vars

\* The labels of the mesh handed to write, cell by cell, and the set in use
GivenLabels == Flatten(mesh.cell_data[1].data)
UsedLabels == Range(GivenLabels)
NamedLabels == {mesh.field_data[nm][1] : nm \in DOMAIN mesh.field_data}
\* N groups and a complete assignment: every cell has a non-zero label, and
\* the labels in use are the labels field_data names (with dimension 3)
CompleteLabels == 0 \notin UsedLabels /\ UsedLabels = NamedLabels
\* the place of a label among the labels in use, counted from 1
RankOf(v) == Cardinality({u \in UsedLabels : u <= v})

===========================================================================
